---- MODULE Spec2Model ----
(***************************************************************************)
(* A model of the vector-indexed knowledge graph core of                   *)
(* gpt-notes-to-tasks: the Chroma-backed VectorStoreService                *)
(* (services/vector_store/store_service.py), the LinkService built on it   *)
(* (services/knowledge/link_service.py) and the knowledge-base driver      *)
(* process_knowledge_base (main.py).                                       *)
(*                                                                         *)
(* Strings are modelled as sequences of fragments: an id such as           *)
(* "dir/Bar.md" is <<"dir/", "Bar", ".md">>, and a text is a sequence of   *)
(* tokens (words, newlines, the "---" rule, headings, [[wiki]] links and   *)
(* [text](url) links).  String concatenation is sequence concatenation,    *)
(* so that two different pairs of strings can concatenate to the same id.  *)
(***************************************************************************)
EXTENDS Integers, Sequences, FiniteSets, TLC

VARIABLES
    notes,      \* collections["notes"]: one record per stored chunk
    links,      \* collections["links"]: one record per stored wiki edge
    refs,       \* collections["references"]: one record per external edge
    meta,       \* metadata_collection: doc id -> modified_time records
    sys,        \* system_collection: the "last_update" singleton
    seed,       \* the hash salt of the running Python process
    now,        \* the clock read by time.time()
    files,      \* the note files on disk: path -> [content, mtime] or NoFile
    last        \* the last call made and what it returned

vars == <<notes, links, refs, meta, sys, seed, now, files, last>>

(***************************************************************************)
(* Bounds of the model.                                                    *)
(***************************************************************************)
MaxTime == 2        \* the clock runs 0..MaxTime
MaxSeed == 1        \* hash salts 0..MaxSeed (one per program run)
HubLinks == 11      \* wiki links in the index-page chunk (one more than a query page)

(***************************************************************************)
(* Small helpers.                                                          *)
(***************************************************************************)
Min(a, b) == IF a <= b THEN a ELSE b

Range(s) == {s[i] : i \in 1..Len(s)}

RECURSIVE Concat(_)
\* the concatenation of a sequence of sequences
Concat(ss) == IF ss = <<>> THEN <<>> ELSE Head(ss) \o Concat(Tail(ss))

IsPrefix(p, s) == Len(p) <= Len(s) /\ SubSeq(s, 1, Len(p)) = p

\* p occurs in s as a contiguous run (Python's `p in s`)
Contains(s, p) == \E i \in 0..(Len(s) - Len(p)) : SubSeq(s, i + 1, i + Len(p)) = p

(***************************************************************************)
(* Texts.  A token is a record [k, t, a]:                                  *)
(*   k = "w"    a run of plain characters t                                *)
(*   k = "sp"   a blank                                                    *)
(*   k = "nl"   a newline                                                  *)
(*   k = "hr"   the three dashes "---"                                     *)
(*   k = "h"    a heading line such as "## Related"                        *)
(*   k = "wiki" [[t]] when a = <<>>, [[t|a]] otherwise                     *)
(*   k = "ext"  [a](t), a Markdown link with text a and url t              *)
(***************************************************************************)
W(s) == [k |-> "w", t |-> <<s>>, a |-> <<>>]
SP == [k |-> "sp", t |-> <<>>, a |-> <<>>]
NL == [k |-> "nl", t |-> <<>>, a |-> <<>>]
HR == [k |-> "hr", t |-> <<>>, a |-> <<>>]
Heading(s) == [k |-> "h", t |-> <<s>>, a |-> <<>>]
Wiki(target, alias) == [k |-> "wiki", t |-> target, a |-> alias]
Ext(text, url) == [k |-> "ext", t |-> url, a |-> text]

\* _extract_wiki_links: the [[target]] and [[target|alias]] links of a text,
\* in order; the alias defaults to the target
ExtractWikiLinks(text) ==
    LET ws == SelectSeq(text, LAMBDA tok : tok.k = "wiki")
    IN [i \in 1..Len(ws) |->
            [target |-> ws[i].t,
             alias |-> IF ws[i].a = <<>> THEN ws[i].t ELSE ws[i].a]]

\* _extract_external_refs: the [text](url) links of a text, in order
ExtractExternalRefs(text) ==
    LET es == SelectSeq(text, LAMBDA tok : tok.k = "ext")
    IN [i \in 1..Len(es) |-> [text |-> es[i].a, url |-> es[i].t]]

(***************************************************************************)
(* Ids.                                                                    *)
(***************************************************************************)
\* f"{doc_id}_chunk_{i}"
ChunkId(d, i) == d \o <<"_chunk_", ToString(i)>>

\* f"{doc_id}_to_{link['target']}"
LinkId(d, target) == d \o <<"_to_">> \o target

\* hash(url): Python salts str hashes per process, so the value depends on
\* the run's salt; within one run equal urls hash equally and (64-bit
\* values) different urls differently
UrlCode(url) == IF url = <<"u1">> THEN 0 ELSE IF url = <<"u2">> THEN 1 ELSE 2
PyHash(s, url) == s * 3 + UrlCode(url)

\* f"{doc_id}_to_{hash(ref['url'])}"
RefId(s, d, url) == d \o <<"_to_", ToString(PyHash(s, url))>>

(***************************************************************************)
(* Collections.  A collection is a set of records with distinct ids.       *)
(***************************************************************************)
\* collection.upsert of one record: a record with the same id is replaced
Upsert(coll, rec) == {r \in coll : r.id # rec.id} \cup {rec}

RECURSIVE UpsertAll(_, _)
\* collection.upsert of a batch, in order
UpsertAll(coll, recs) ==
    IF recs = <<>> THEN coll ELSE UpsertAll(Upsert(coll, Head(recs)), Tail(recs))

UniqueIds(coll) == \A r1, r2 \in coll : r1.id = r2.id => r1 = r2

(***************************************************************************)
(* Metadata dictionaries are functions from keys to values.  None (no      *)
(* metadata argument) is kept apart from the empty dictionary.             *)
(***************************************************************************)
NoMeta == <<>>
None == [none |-> TRUE]
IsNone(m) == "none" \in DOMAIN m

\* dict.get(key, default)
MetaGet(m, key, dflt) == IF key \in DOMAIN m THEN m[key] ELSE dflt

\* d[key] = value
MetaSet(m, key, value) ==
    [x \in DOMAIN m \cup {key} |-> IF x = key THEN value ELSE m[x]]

\* `value or ""` for a value that may be None
OrEmpty(value) == IF value = "None" THEN "" ELSE value

\* chunk[:200]; a token counts as one character
ContextLen == 200
Context(chunk) == SubSeq(chunk, 1, Min(Len(chunk), ContextLen))

(***************************************************************************)
(* VectorStoreService.add_document and its helpers.  A store is the record *)
(* [notes, links, refs, meta] of the four collections a write can touch.   *)
(***************************************************************************)
\* the record add_document builds for chunk i of document d.  The
\* wiki_links / external_refs JSON fields are functions of `document` and
\* are not stored separately.
ChunkRecord(d, i, chunk, emb, m) ==
    [id |-> ChunkId(d, i),
     doc_id |-> d,
     chunk_index |-> i,
     document |-> chunk,
     embedding |-> emb,
     doc_type |-> MetaGet(m, "type", "note"),
     source_path |-> MetaGet(m, "source", <<>>),
     date |-> OrEmpty(MetaGet(m, "date", "")),
     filename |-> OrEmpty(MetaGet(m, "filename", ""))]

\* the record _store_link_relationships upserts for one wiki link
LinkRecord(d, target, chunk) ==
    [id |-> LinkId(d, target),
     source_id |-> d,
     target_id |-> target,
     relationship |-> "references",
     link_type |-> "wiki",
     context |-> Context(chunk)]

\* the record _store_link_relationships upserts for one external reference
RefRecord(s, d, ref, chunk) ==
    [id |-> RefId(s, d, ref.url),
     source_id |-> d,
     title |-> ref.text,
     url |-> ref.url,
     context |-> Context(chunk)]

\* the wiki edges of one chunk, upserted in order
UpsertLinks(coll, d, chunk) ==
    LET ws == ExtractWikiLinks(chunk)
    IN UpsertAll(coll, [i \in 1..Len(ws) |-> LinkRecord(d, ws[i].target, chunk)])

\* the external edges of one chunk, upserted in order
UpsertRefs(coll, s, d, chunk) ==
    LET es == ExtractExternalRefs(chunk)
    IN UpsertAll(coll, [i \in 1..Len(es) |-> RefRecord(s, d, es[i], chunk)])

RECURSIVE StoreLinkRelationships(_, _, _, _)
\* _store_link_relationships: chunk by chunk, wiki links then external refs
StoreLinkRelationships(st, s, d, chunks) ==
    IF chunks = <<>> THEN st
    ELSE StoreLinkRelationships(
            [st EXCEPT !.links = UpsertLinks(st.links, d, Head(chunks)),
                       !.refs = UpsertRefs(st.refs, s, d, Head(chunks))],
            s, d, Tail(chunks))

\* add_document(doc_id, chunks, embeddings, metadata) with m = metadata or {}
AddDocumentOp(st, s, d, chunks, embs, m) ==
    LET recs == [i \in 1..Len(chunks) |->
                    ChunkRecord(d, i - 1, chunks[i], embs[i], m)]
        st1 == IF Len(chunks) > 0
               THEN [st EXCEPT !.notes = UpsertAll(st.notes, recs)]
               ELSE st
        st2 == StoreLinkRelationships(st1, s, d, chunks)
    IN IF DOMAIN m # {} /\ "modified_time" \in DOMAIN m
       THEN [st2 EXCEPT !.meta =
                Upsert(st2.meta, [id |-> d, modified_time |-> m["modified_time"]])]
       ELSE st2

(***************************************************************************)
(* VectorStoreService.update_document.                                     *)
(***************************************************************************)
\* a purge that forgets the where clause's effect and removes nothing
DeleteChunksNothing(coll, d) == coll

\* a purge that removes only the last chunk of the document
DeleteChunksLastOnly(coll, d) ==
    {r \in coll : r.doc_id # d
                  \/ \E q \in coll : q.doc_id = d /\ q.chunk_index > r.chunk_index}

\* collections["notes"].delete(where={"doc_id": doc_id})
DeleteChunks(coll, d) == {r \in coll : r.doc_id # d}

\* collections["links"].delete(where={"source_id": doc_id})
DeleteLinks(coll, d) == {r \in coll : r.source_id # d}

\* metadata_collection.get(ids=[doc_id]) turned into the metadata to keep
ExistingMeta(coll, d) ==
    LET found == {r \in coll : r.id = d}
    IN IF found = {} THEN NoMeta
       ELSE [modified_time |-> (CHOOSE r \in found : TRUE).modified_time]

\* update_document(doc_id, new_chunks, new_embeddings, metadata) at time t
UpdateDocumentOp(st, s, d, chunks, embs, m, t) ==
    LET st1 == [st EXCEPT !.notes = DeleteChunks(st.notes, d)]
        st2 == [st1 EXCEPT !.links = DeleteLinks(st1.links, d)]
        m1 == IF IsNone(m) THEN ExistingMeta(st2.meta, d) ELSE m
        m2 == MetaSet(m1, "modified_time", t)
    IN AddDocumentOp(st2, s, d, chunks, embs, m2)

Store == [notes |-> notes, links |-> links, refs |-> refs, meta |-> meta]

(***************************************************************************)
(* The inputs the calls are tried on.                                      *)
(***************************************************************************)
A == <<"A">>
B == <<"B">>
C == <<"C">>
HubTarget(i) == <<"T", ToString(i)>>

\* embeddings are unit vectors in the plane, named by their angle in steps
\* of 15 degrees; Cos10 is ten times the cosine of an angle difference,
\* rounded
Cos10(x) ==
    <<10, 10, 9, 7, 5, 3, 0, -3, -5, -7, -9, -10,
      -10, -10, -9, -7, -5, -3, 0, 3, 5, 7, 9, 10>>[(x % 24) + 1]

cSeeB == <<W("See"), SP, Wiki(B, <<>>), SP, W("for details")>>
cExt == <<W("and"), SP, Ext(<<"external link">>, <<"u1">>)>>
cPlain == <<W("Updated content")>>
cBoth == <<Wiki(C, <<"note C">>), SP, Ext(<<"same link">>, <<"u1">>)>>
cSeeA == <<W("About"), SP, Wiki(A, <<>>)>>
cHub == [i \in 1..HubLinks |-> Wiki(HubTarget(i), <<>>)]

\* (chunks, embeddings) pairs as the chunker and the embedder hand them over
Doc0 == [chunks |-> <<>>, embs |-> <<>>]
Doc1 == [chunks |-> <<cPlain>>, embs |-> <<4>>]
Doc2 == [chunks |-> <<cBoth, cExt>>, embs |-> <<0, 8>>]
Doc3 == [chunks |-> <<cSeeB, cExt, cPlain>>, embs |-> <<0, 2, 12>>]
DocB == [chunks |-> <<cSeeB>>, embs |-> <<6>>]
DocHub == [chunks |-> <<cHub>>, embs |-> <<12>>]

DocIds == {A, B}
\* A is indexed in every version, B in one
StoreDocs(d) == IF d = A THEN {Doc0, Doc1, Doc2, Doc3} ELSE {DocB}

\* a scanned note's metadata as get_all_notes builds it (the keys
\* add_document reads)
NoteMeta(d, type, t) ==
    [type |-> type, source |-> d, date |-> "None", filename |-> "note.md",
     modified_time |-> t]

(***************************************************************************)
(* Initial state: an empty store, no note files.                           *)
(***************************************************************************)
NoFile == [exists |-> FALSE]
AMd == <<"A", ".md">>
BMd == <<"B", ".md">>
\* the note files, by their path relative to the notes directory
Paths == {AMd, BMd}

Init ==
    /\ notes = {}
    /\ links = {}
    /\ refs = {}
    /\ meta = {}
    /\ sys = {}
    /\ seed = 0
    /\ now = 0
    /\ files = [p \in Paths |-> NoFile]
    /\ last = [op |-> "init"]

(***************************************************************************)
(* Actions of the store.                                                   *)
(***************************************************************************)
\* a call of add_document that returns
AddDocument(d, doc, m) ==
    LET st == AddDocumentOp(Store, seed, d, doc.chunks, doc.embs, m)
    IN /\ notes' = st.notes
       /\ links' = st.links
       /\ refs' = st.refs
       /\ meta' = st.meta
       /\ last' = [op |-> "add_document", doc_id |-> d, chunks |-> doc.chunks,
                   embs |-> doc.embs, metadata |-> m]
       /\ UNCHANGED <<sys, seed, now, files>>

\* a call of update_document that returns
UpdateDocument(d, doc, m) ==
    LET st == UpdateDocumentOp(Store, seed, d, doc.chunks, doc.embs, m, now)
    IN /\ notes' = st.notes
       /\ links' = st.links
       /\ refs' = st.refs
       /\ meta' = st.meta
       /\ last' = [op |-> "update_document", doc_id |-> d, chunks |-> doc.chunks,
                   embs |-> doc.embs, metadata |-> m,
                   had |-> Cardinality({r \in notes : r.doc_id = d})]
       /\ UNCHANGED <<sys, seed, now, files>>

\* the program exits and is started again: the persisted store stays, the
\* new process draws a new hash salt
NewProcess ==
    /\ \E s \in 0..MaxSeed : s # seed /\ seed' = s
    /\ last' = [op |-> "start"]
    /\ UNCHANGED <<notes, links, refs, meta, sys, now, files>>

\* time passes
Tick ==
    /\ now < MaxTime
    /\ now' = now + 1
    /\ UNCHANGED <<notes, links, refs, meta, sys, seed, files, last>>

StoreAdd ==
    \E d \in DocIds : \E doc \in StoreDocs(d) :
        \E m \in {NoMeta, NoteMeta(d, "daily", now)} : AddDocument(d, doc, m)

StoreUpdate ==
    \E d \in DocIds : \E doc \in StoreDocs(d) :
        \E m \in {None, NoteMeta(d, "daily", now)} : UpdateDocument(d, doc, m)

Next == StoreAdd \/ StoreUpdate \/ NewProcess

Spec == Init /\ [][Next]_vars

(***************************************************************************)
(* Queries.  Collection.query returns the n_results records nearest to the *)
(* query vector among those the where clause selects; which of several     *)
(* equally distant records make the cut is up to the index, and so is      *)
(* their order.                                                            *)
(***************************************************************************)
\* n_results of Collection.query when the caller passes none
DefaultNResults == 10

\* the vector [1.0] * dims the store uses for exact-match lookups: in the
\* plane, 45 degrees
DummyAngle == 3

\* ten times the cosine distance of two embeddings
Distance10(q, e) == 10 - Cos10(e - q + 24)

\* the sets of records a query for the n nearest of S may return
TopSets(S, dist, n) ==
    IF Cardinality(S) <= n THEN {S}
    ELSE {T \in SUBSET S :
            /\ Cardinality(T) = n
            /\ \A x \in T : \A y \in S \ T : dist[x] <= dist[y]}

RECURSIVE Ranked(_, _)
\* T listed nearest first; equally distant records in the index's order
Ranked(T, dist) ==
    IF T = {} THEN <<>>
    ELSE LET x == CHOOSE r \in T : \A y \in T : dist[r] <= dist[y]
         IN <<x>> \o Ranked(T \ {x}, dist)

\* the result lists collection.query(query_embeddings=[q], n_results=n,
\* where=...) can give for the records S the where clause selects, dist
\* being the distance of each record to q
Query(S, dist, n) == {Ranked(T, dist) : T \in TopSets(S, dist, n)}

\* every links / references / metadata record carries the dummy vector
SameDistance(S) == [r \in S |-> 0]

\* find_connected_notes(doc_id): the lists it can return
FindConnectedNotesOp(coll, d) ==
    LET S == {r \in coll : r.source_id = d}
        rs == Query(S, SameDistance(S), DefaultNResults)
    IN {[i \in 1..Len(res) |->
            [target_id |-> res[i].target_id, relationship |-> res[i].relationship,
             link_type |-> res[i].link_type, context |-> res[i].context]] : res \in rs}

\* find_backlinks(doc_id): the lists it can return
FindBacklinksOp(coll, d) ==
    LET S == {r \in coll : r.target_id = d}
        rs == Query(S, SameDistance(S), DefaultNResults)
    IN {[i \in 1..Len(res) |->
            [source_id |-> res[i].source_id, relationship |-> res[i].relationship,
             link_type |-> res[i].link_type, context |-> res[i].context]] : res \in rs}

\* Python truth of an optional number: None (the empty set) and 0 are false
Truthy(opt) == \E v \in opt : v # 0

\* `if threshold and similarity < threshold: continue`
BelowThreshold(similarity, threshold) ==
    Truthy(threshold) /\ \E v \in threshold : similarity < v

\* find_similar(query_embedding, limit, threshold, doc_type): the lists it
\* can return; threshold and doc_type are optional (empty set: None)
FindSimilarOp(coll, q, limit, threshold, doc_type) ==
    LET S == {r \in coll : \A ty \in doc_type : r.doc_type = ty}
        dist == [r \in S |-> Distance10(q, r.embedding)]
        rs == Query(S, dist, limit)
        entry(r) == [chunk_id |-> r.id, content |-> r.document, doc_id |-> r.doc_id,
                     similarity |-> 10 - dist[r]]
    IN {LET all == [i \in 1..Len(res) |-> entry(res[i])]
        IN SelectSeq(all, LAMBDA e : ~BelowThreshold(e.similarity, threshold))
          : res \in rs}

\* get_note_content(doc_id): the records it can return, as a set (empty:
\* None).  The lookup by doc_id comes first, the one by chunk id second.
GetNoteContentOp(coll, d) ==
    LET S == {r \in coll : r.doc_id = d}
        dist == [r \in S |-> Distance10(DummyAngle, r.embedding)]
        rs == Query(S, dist, DefaultNResults)
        byId == {r \in coll : r.id = ChunkId(d, 0)}
    IN IF \E res \in rs : res # <<>>
       THEN {res[1] : res \in rs}
       ELSE byId

(***************************************************************************)
(* LinkService.analyze_relationships and _suggest_connections.             *)
(* Similarities are in tenths, ranking scores in thousandths.              *)
(***************************************************************************)
SemanticLimit == 5
SemanticThreshold == 6
SuggestLimit == 10
SuggestThreshold == 5
PreviewLen == 200
BonusChunks == 3
BonusWeight == 2

\* os.path.normpath: a "./" segment is dropped
NormPath(path) == SelectSeq(path, LAMBDA frag : frag # "./")

RECURSIVE AfterLast(_, _)
\* path.split(frag)[-1]
AfterLast(path, frag) ==
    IF frag \notin Range(path) THEN path
    ELSE AfterLast(Tail(path), frag)

\* the id relative to the notes directory: what follows the last "notes/"
\* of a path that has one
RelativeId(path) == IF "notes/" \in Range(path) THEN AfterLast(path, "notes/") ELSE path

IsSpace(tok) == tok.k \in {"sp", "nl"}

RECURSIVE RStrip(_)
\* str.rstrip()
RStrip(text) ==
    IF text # <<>> /\ IsSpace(text[Len(text)])
    THEN RStrip(SubSeq(text, 1, Len(text) - 1))
    ELSE text

RECURSIVE LStrip(_)
LStrip(text) == IF text # <<>> /\ IsSpace(Head(text)) THEN LStrip(Tail(text)) ELSE text

\* content[:200].replace("\n", " ").strip()
Preview(content) ==
    LET cut == SubSeq(content, 1, Min(Len(content), PreviewLen))
    IN LStrip(RStrip([i \in 1..Len(cut) |-> IF cut[i].k = "nl" THEN SP ELSE cut[i]]))

\* a result is taken up unless it has no doc_id, is linked already or is
\* the note itself; a variant that forgets the existing links
IsCandidateIgnoringExisting(result_id, existing, note_id) ==
    /\ result_id # <<>>
    /\ result_id # note_id
    /\ NormPath(result_id) # NormPath(note_id)

\* the test _suggest_connections puts every similar chunk to
IsCandidate(result_id, existing, note_id) ==
    /\ result_id # <<>>
    /\ result_id \notin existing
    /\ result_id # note_id
    /\ NormPath(result_id) # NormPath(note_id)

\* note_matches after one more result: a new entry, or the entry of the
\* result's document with one more chunk
AddMatch(matches, result) ==
    IF \E i \in 1..Len(matches) : matches[i].note_id = result.doc_id
    THEN [i \in 1..Len(matches) |->
            IF matches[i].note_id # result.doc_id THEN matches[i]
            ELSE [note_id |-> result.doc_id,
                  max_similarity |-> IF result.similarity > matches[i].max_similarity
                                     THEN result.similarity
                                     ELSE matches[i].max_similarity,
                  chunk_similarities |-> Append(matches[i].chunk_similarities,
                                                result.similarity),
                  best_preview |-> IF result.similarity > matches[i].max_similarity
                                   THEN Preview(result.content)
                                   ELSE matches[i].best_preview,
                  chunk_count |-> matches[i].chunk_count + 1]]
    ELSE Append(matches,
                [note_id |-> result.doc_id,
                 max_similarity |-> result.similarity,
                 chunk_similarities |-> <<result.similarity>>,
                 best_preview |-> Preview(result.content),
                 chunk_count |-> 1])

RECURSIVE GroupMatches(_, _, _, _)
\* the grouping loop over the similar chunks, in result order
GroupMatches(similar, existing, note_id, matches) ==
    IF similar = <<>> THEN matches
    ELSE GroupMatches(Tail(similar), existing, note_id,
            IF IsCandidate(Head(similar).doc_id, existing, note_id)
            THEN AddMatch(matches, Head(similar))
            ELSE matches)

RECURSIVE SumSeq(_)
SumSeq(xs) == IF xs = <<>> THEN 0 ELSE Head(xs) + SumSeq(Tail(xs))

\* a / b rounded to the nearest integer, for a >= 0 and b > 0
RoundDiv(a, b) == (2 * a + b) \div (2 * b)

\* a variant whose bonus leaves out the factor min(1, chunk_count / 3)
AggregateScoreMeanOnly(match) ==
    100 * match.max_similarity
      + RoundDiv(10 * BonusWeight * SumSeq(match.chunk_similarities),
                 match.chunk_count)

\* round(max_similarity + 0.2 * mean(chunk_similarities)
\*       * min(1, chunk_count / 3), 3), in thousandths
AggregateScore(match) ==
    LET n == match.chunk_count
        total == SumSeq(match.chunk_similarities)
    IN 100 * match.max_similarity
         + (IF n >= BonusChunks
            THEN RoundDiv(10 * BonusWeight * total, n)
            ELSE RoundDiv(10 * BonusWeight * total, BonusChunks))

Suggestion(match) ==
    [note_id |-> match.note_id, similarity |-> AggregateScore(match),
     max_similarity |-> match.max_similarity, chunk_count |-> match.chunk_count,
     preview |-> match.best_preview]

RECURSIVE SortDescending(_, _)
\* list.sort(key=similarity, reverse=True): stable, highest first
SortDescending(todo, done) ==
    IF todo = <<>> THEN done
    ELSE LET x == Head(todo)
             k == Cardinality({i \in 1..Len(done) : done[i].similarity >= x.similarity})
         IN SortDescending(Tail(todo),
                SubSeq(done, 1, k) \o <<x>> \o SubSeq(done, k + 1, Len(done)))

\* the suggestions made from one list of similar chunks
Suggestions(similar, direct_links, backlinks, note_id) ==
    LET existing == {direct_links[i].target_id : i \in 1..Len(direct_links)}
                      \cup {backlinks[i].source_id : i \in 1..Len(backlinks)}
        matches == GroupMatches(similar, existing, note_id, <<>>)
    IN SortDescending([i \in 1..Len(matches) |-> Suggestion(matches[i])], <<>>)

\* _suggest_connections(note_id, existing_links, backlinks): the pairs
\* (similar chunks found, suggestions made) it can come to
SuggestConnectionsOp(st, note_id, existing_links, backlinks) ==
    LET found == GetNoteContentOp(st.notes, note_id)
    IN IF found = {} THEN {[similar |-> <<>>, suggested |-> <<>>]}
       ELSE UNION {
              {[similar |-> similar,
                suggested |-> Suggestions(similar, dl, bl, note_id)] :
                 similar \in FindSimilarOp(st.notes, c.embedding, SuggestLimit,
                                           {SuggestThreshold}, {}),
                 dl \in IF existing_links # <<>> THEN {existing_links}
                        ELSE FindConnectedNotesOp(st.links, note_id),
                 bl \in IF backlinks # <<>> THEN {backlinks}
                        ELSE FindBacklinksOp(st.links, note_id)}
              : c \in found}

\* analyze_relationships(note_id)
AnalyzeRelationships(arg) ==
    LET note_id == RelativeId(NormPath(arg))
        found == GetNoteContentOp(notes, note_id)
    IN \E dl \in FindConnectedNotesOp(links, note_id),
          bl \in FindBacklinksOp(links, note_id) :
       \E sem \in IF found = {} THEN {<<>>}
                  ELSE UNION {FindSimilarOp(notes, c.embedding, SemanticLimit,
                                            {SemanticThreshold}, {}) : c \in found} :
       \E sug \in SuggestConnectionsOp(Store, note_id, dl, bl) :
          /\ last' = [op |-> "analyze_relationships", arg |-> arg, note_id |-> note_id,
                      direct_links |-> dl, semantic_links |-> sem, backlinks |-> bl,
                      similar |-> sug.similar, suggested_links |-> sug.suggested]
          /\ UNCHANGED <<notes, links, refs, meta, sys, seed, now, files>>

\* find_similar called by a user of the store
FindSimilar(q, limit, threshold, doc_type) ==
    \E out \in FindSimilarOp(notes, q, limit, threshold, doc_type) :
        /\ last' = [op |-> "find_similar", query |-> q, limit |-> limit,
                    threshold |-> threshold, out |-> out]
        /\ UNCHANGED <<notes, links, refs, meta, sys, seed, now, files>>

\* find_connected_notes called by a user of the store
FindConnectedNotes(d) ==
    \E out \in FindConnectedNotesOp(links, d) :
        /\ last' = [op |-> "find_connected_notes", doc_id |-> d, out |-> out]
        /\ UNCHANGED <<notes, links, refs, meta, sys, seed, now, files>>

\* find_backlinks called by a user of the store
FindBacklinks(d) ==
    \E out \in FindBacklinksOp(links, d) :
        /\ last' = [op |-> "find_backlinks", doc_id |-> d, out |-> out]
        /\ UNCHANGED <<notes, links, refs, meta, sys, seed, now, files>>

(***************************************************************************)
(* The knowledge-base driver: process_knowledge_base with --reindex or     *)
(* --update (main.py), and the collaborators it calls.                     *)
(***************************************************************************)
\* the paragraph break "\n\n"
Break == <<NL, NL>>

RECURSIVE SplitParagraphs(_, _)
\* text.split("\n\n") with the empty pieces dropped; cur is the piece so far
SplitParagraphs(text, cur) ==
    IF text = <<>> THEN (IF cur = <<>> THEN <<>> ELSE <<cur>>)
    ELSE IF IsPrefix(Break, text)
         THEN (IF cur = <<>> THEN <<>> ELSE <<cur>>)
                \o SplitParagraphs(SubSeq(text, 3, Len(text)), <<>>)
         ELSE SplitParagraphs(Tail(text), Append(cur, Head(text)))

\* chunk_document: the chunk texts of a note.  Where a group is cut is the
\* language model's reply; the model takes it to cut at paragraph breaks.
\* An empty document has no chunks.
ChunkDocument(content) == SplitParagraphs(content, <<>>)

\* embed_chunks: one vector per text, a function of the text alone
EmbedText(chunk) ==
    (Len(chunk) + 3 * Len(SelectSeq(chunk, LAMBDA tok : tok.k = "wiki"))) % 24
EmbedChunks(chunks) == [i \in 1..Len(chunks) |-> EmbedText(chunks[i])]

\* get_note_type: by substring of the path
NoteType(path) == IF "daily/" \in Range(path) THEN "daily" ELSE "note"

\* the entry get_all_notes builds for the file at `path`
NoteEntry(path) ==
    [id |-> path, content |-> files[path].content,
     metadata |-> NoteMeta(path, NoteType(path), files[path].mtime)]

\* get_all_notes, in directory order
WalkOrder == <<AMd, BMd>>
AllNotes ==
    LET found == SelectSeq(WalkOrder, LAMBDA p : files[p].exists)
    IN [i \in 1..Len(found) |-> NoteEntry(found[i])]

\* get_last_update_time: the stored timestamp, 0 when there is none
GetLastUpdateTime ==
    IF sys = {} THEN 0 ELSE (CHOOSE r \in sys : r.id = "last_update").timestamp

\* set_last_update_time(timestamp)
SetLastUpdateTime(coll, t) == Upsert(coll, [id |-> "last_update", timestamp |-> t])

RECURSIVE IndexNotes(_, _, _)
\* the loop of process_knowledge_base over the selected notes: a note
\* without chunks is skipped, the others go to add_document
IndexNotes(st, s, entries) ==
    IF entries = <<>> THEN st
    ELSE LET n == Head(entries)
             chunks == ChunkDocument(n.content)
         IN IndexNotes(
                IF chunks = <<>> THEN st
                ELSE AddDocumentOp(st, s, n.id, chunks, EmbedChunks(chunks), n.metadata),
                s, Tail(entries))

\* a variant that also takes the notes modified at the stored time
SelectedNotesOrSame(mode) ==
    IF mode = "reindex" THEN AllNotes
    ELSE SelectSeq(AllNotes,
                   LAMBDA n : MetaGet(n.metadata, "modified_time", 0) >= GetLastUpdateTime)

\* the notes a run selects
SelectedNotes(mode) ==
    IF mode = "reindex" THEN AllNotes
    ELSE SelectSeq(AllNotes,
                   LAMBDA n : MetaGet(n.metadata, "modified_time", 0) > GetLastUpdateTime)

\* a variant that records the time of every --update run
RecordsRunAlways(mode, writes) == mode = "update"

\* whether the run stores its start time as last_update: an --update run
\* that was no dry run and came to the end of its loop
RecordsRun(mode, writes) == writes /\ mode = "update"

\* one run of `kb --reindex` or `kb --update` in a fresh process with hash
\* salt s
ProcessKnowledgeBase(mode, dry_run, s) ==
    LET selected == SelectedNotes(mode)
        nothing == mode = "update" /\ selected = <<>>
        writes == ~nothing /\ ~dry_run
        st == IF writes THEN IndexNotes(Store, s, selected) ELSE Store
    IN /\ seed' = s
       /\ notes' = st.notes
       /\ links' = st.links
       /\ refs' = st.refs
       /\ meta' = st.meta
       /\ sys' = IF RecordsRun(mode, writes) THEN SetLastUpdateTime(sys, now) ELSE sys
       /\ last' = [op |-> "kb", mode |-> mode, dry_run |-> dry_run,
                   indexed |-> IF writes
                               THEN {n.id : n \in {x \in Range(selected) :
                                                     ChunkDocument(x.content) # <<>>}}
                               ELSE {},
                   selected |-> {n.id : n \in Range(selected)},
                   before |-> GetLastUpdateTime, started |-> now, raised |-> FALSE]
       /\ UNCHANGED <<now, files>>

\* a run of `kb --reindex` or `kb --update` in which indexing the k-th
\* selected note raises: at stage "embed" embed_chunks raises, at stage
\* "upsert" the upsert of the chunks in add_document does; nothing is
\* stored for that note.  The exception leaves the loop and
\* process_knowledge_base raises it again.
ProcessKnowledgeBaseFault(mode, s, k, stage) ==
    LET selected == SelectedNotes(mode)
        n == selected[k]
        chunks == ChunkDocument(n.content)
        st2 == IndexNotes(Store, s, SubSeq(selected, 1, k - 1))
    IN /\ k \in 1..Len(selected)
       /\ chunks # <<>>
       /\ seed' = s
       /\ notes' = st2.notes
       /\ links' = st2.links
       /\ refs' = st2.refs
       /\ meta' = st2.meta
       /\ last' = [op |-> "kb", mode |-> mode, dry_run |-> FALSE,
                   indexed |-> {x.id : x \in {y \in Range(SubSeq(selected, 1, k - 1)) :
                                                 ChunkDocument(y.content) # <<>>}},
                   selected |-> {x.id : x \in Range(selected)},
                   before |-> GetLastUpdateTime, started |-> now, raised |-> TRUE,
                   failed |-> n.id, stage |-> stage]
       /\ UNCHANGED <<sys, now, files>>

\* the user saves a note file
WriteNote(path, content) ==
    /\ files' = [files EXCEPT ![path] = [exists |-> TRUE, content |-> content,
                                         mtime |-> now]]
    /\ last' = [op |-> "write_note", path |-> path]
    /\ UNCHANGED <<notes, links, refs, meta, sys, seed, now>>

Note3 == cSeeB \o Break \o cExt \o Break \o cPlain
Note1 == cPlain
NoteEmpty == <<>>
NoteB == cSeeB

\* the versions of each note file
NoteContents(path) == IF path = AMd THEN {Note3, Note1, NoteEmpty} ELSE {NoteB}

KbWrite == \E path \in Paths : \E content \in NoteContents(path) : WriteNote(path, content)
KbReindex == \E dry_run \in BOOLEAN, s \in 0..MaxSeed :
                ProcessKnowledgeBase("reindex", dry_run, s)
KbUpdate == \E dry_run \in BOOLEAN, s \in 0..MaxSeed :
                ProcessKnowledgeBase("update", dry_run, s)

NextKb == KbWrite \/ Tick \/ KbReindex \/ KbUpdate

SpecKb == Init /\ [][NextKb]_vars

(***************************************************************************)
(* The specification of the index runs: runs that succeed, dry runs and    *)
(* runs in which a note fails, all in one process.                         *)
(***************************************************************************)
RunContents(path) == IF path = AMd THEN {Note1, NoteEmpty} ELSE {NoteB}

RunWrite == \E path \in Paths : \E content \in RunContents(path) : WriteNote(path, content)
RunIndex == \E mode \in {"reindex", "update"}, dry_run \in BOOLEAN :
               ProcessKnowledgeBase(mode, dry_run, seed)
RunFault == \E mode \in {"reindex", "update"}, k \in 1..Len(WalkOrder),
               stage \in {"embed", "upsert"} :
               ProcessKnowledgeBaseFault(mode, seed, k, stage)

NextRun == RunWrite \/ Tick \/ RunIndex \/ RunFault

SpecRun == Init /\ [][NextRun]_vars

(***************************************************************************)
(* LinkService.update_obsidian_links: wiki links written into note files.  *)
(* A file is found by its path relative to the notes directory.  In a      *)
(* note's text the "---" line is the token HR between two newlines.        *)
(***************************************************************************)
Rule == <<NL, HR, NL>>
AutoHeading == Heading("## Auto generated references")
KnownSections == {"## Related", "## Links", "## References", "## Backlinks"}
DirFrags == {"/home/u/", "notes/", "./", "sub/", "daily/"}

FileKey(path) == RelativeId(path)
FileExists(fs, path) == FileKey(path) \in DOMAIN fs /\ fs[FileKey(path)].exists

RECURSIVE Basename(_)
\* os.path.basename
Basename(path) ==
    IF \E i \in 1..Len(path) : path[i] \in DirFrags THEN Basename(Tail(path)) ELSE path

\* _generate_alias: os.path.basename(target).replace(".md", "")
GenerateAlias(target) == SelectSeq(Basename(target), LAMBDA frag : frag # ".md")

\* the first place where piece p starts in text, 0 when there is none
FirstAt(text, p) ==
    IF Contains(text, p)
    THEN CHOOSE i \in 1..Len(text) :
            /\ SubSeq(text, i, i + Len(p) - 1) = p
            /\ \A j \in 1..(i - 1) : SubSeq(text, j, j + Len(p) - 1) # p
    ELSE 0

\* original_content.split("\n---\n", 1): main body and links section
SplitAtRule(content) ==
    LET i == FirstAt(content, Rule)
    IN IF i = 0 THEN [main |-> content, links |-> <<>>]
       ELSE [main |-> SubSeq(content, 1, i - 1),
             links |-> SubSeq(content, i + Len(Rule), Len(content))]

\* the string `target` occurs in the text of token tok
Mentions(tok, target) == Contains(tok.t, target) \/ Contains(tok.a, target)

\* the exact pattern \[\[target(?:\|[^\]]+)?\]\] matches in content
HasExactLink(content, target) ==
    \E i \in 1..Len(content) : content[i].k = "wiki" /\ content[i].t = target

\* content.split(section, 1)[1].split("\n\n")[0] mentions target, for the
\* first heading of the text that holds `section`
SectionMentions(content, section, target) ==
    LET at == {i \in 1..Len(content) :
                  content[i].k = "h" /\ Contains(content[i].t, <<section>>)}
    IN at # {} /\
       LET i == CHOOSE x \in at : \A y \in at : x <= y
           rest == SubSeq(content, i + 1, Len(content))
           stop == FirstAt(rest, Break)
           body == IF stop = 0 THEN rest ELSE SubSeq(rest, 1, stop - 1)
       IN \/ Contains(SubSeq(content[i].t, 2, Len(content[i].t)), target)
          \/ \E j \in 1..Len(body) : Mentions(body[j], target)

\* "[[" + base_name occurs in content
HasNameMention(content, target) ==
    \E i \in 1..Len(content) :
        content[i].k = "wiki" /\ IsPrefix(GenerateAlias(target), content[i].t)

\* a variant that knows the known sections only
HasWikiLinkInSectionsOnly(content, target) ==
    \E section \in KnownSections : SectionMentions(content, section, target)

\* _has_wiki_link(content, target)
HasWikiLink(content, target) ==
    \/ HasExactLink(content, target)
    \/ \E section \in KnownSections : SectionMentions(content, section, target)
    \/ HasNameMention(content, target)

\* "[[source_id]]" occurs in content
HasBacklink(content, source_id) ==
    \E i \in 1..Len(content) :
        content[i].k = "wiki" /\ content[i].t = source_id /\ content[i].a = <<>>

EndsWithNewline(content) == content # <<>> /\ content[Len(content)].k = "nl"

\* _update_target_backlinks(target_id, source_id, source_path) at time t:
\* the files afterwards and whether it wrote one
UpdateTargetBacklinks(fs, st, target_id, source_id, source_path, t) ==
    IF GetNoteContentOp(st.notes, target_id) = {} \/ ~FileExists(fs, source_path)
    THEN [files |-> fs, wrote |-> FALSE]
    ELSE LET key == FileKey(source_path)
             content == fs[key].content
         IN IF HasBacklink(content, source_id) THEN [files |-> fs, wrote |-> FALSE]
            ELSE [files |-> [fs EXCEPT ![key] =
                               [exists |-> TRUE,
                                content |-> content
                                   \o (IF EndsWithNewline(content) THEN <<>> ELSE <<NL>>)
                                   \o <<NL, Wiki(source_id, <<>>), NL>>,
                                mtime |-> t]],
                  wrote |-> TRUE]

RECURSIVE AddLinks(_, _, _, _, _, _, _, _, _)
\* the loop over the link directives: the targets taken up, the files
\* after the backlink updates and the paths those updates wrote
AddLinks(lnks, both, st, note_id, path, ub, t, fs, acc) ==
    IF lnks = <<>> THEN [files |-> fs, added |-> acc.added, backlink_writes |-> acc.writes]
    ELSE LET link == Head(lnks)
             take == link.add_wiki_link /\ ~HasWikiLink(both, link.target_id)
             bl == IF take /\ ub
                   THEN UpdateTargetBacklinks(fs, st, link.target_id, note_id, path, t)
                   ELSE [files |-> fs, wrote |-> FALSE]
         IN AddLinks(Tail(lnks), both, st, note_id, path, ub, t, bl.files,
                [added |-> IF take THEN Append(acc.added, link.target_id) ELSE acc.added,
                 writes |-> IF bl.wrote THEN Append(acc.writes, FileKey(path))
                            ELSE acc.writes])

RECURSIVE LinkLines(_)
\* "\n" + link for every new link
LinkLines(targets) ==
    IF targets = <<>> THEN <<>>
    ELSE <<NL, Wiki(Head(targets), GenerateAlias(Head(targets)))>> \o LinkLines(Tail(targets))

\* a variant that leaves out the links section it was given
UpdatedContentMainOnly(parts, targets) ==
    RStrip(parts.main) \o <<NL, NL, HR, NL, AutoHeading>> \o LinkLines(targets)

\* updated_content
UpdatedContent(parts, targets) ==
    LET main == RStrip(parts.main)
    IN IF parts.links # <<>>
       THEN LET kept == main \o Rule \o RStrip(parts.links)
                headed == IF \E i \in 1..Len(kept) :
                                 kept[i].k = "h" /\ Contains(kept[i].t, AutoHeading.t)
                          THEN kept
                          ELSE kept \o <<NL, NL, AutoHeading>>
            IN headed \o LinkLines(targets)
       ELSE main \o <<NL, NL, HR, NL, AutoHeading>> \o LinkLines(targets)

\* _update_vector_store(note_id, content) with hash salt s at time t
UpdateVectorStore(st, s, note_id, content, t) ==
    LET chunks == ChunkDocument(content)
    IN UpdateDocumentOp(st, s, note_id, chunks, EmbedChunks(chunks), None, t)

\* update_obsidian_links(note_path, links, update_backlinks,
\* skip_vector_update) with hash salt s at time t: the files and the store
\* afterwards and what the call did
UpdateObsidianLinksOp(fs, st, s, t, path, lnks, ub, skip) ==
    LET note_id == RelativeId(path)
        key == FileKey(path)
    IN IF ~FileExists(fs, path)
       THEN [files |-> fs, store |-> st, raised |-> TRUE, added |-> <<>>,
             wrote |-> FALSE, backlink_writes |-> <<>>, vector_updated |-> FALSE]
       ELSE LET parts == SplitAtRule(fs[key].content)
                loop == AddLinks(lnks, parts.main \o parts.links, st, note_id, path,
                                 ub, t, fs, [added |-> <<>>, writes |-> <<>>])
                updated == UpdatedContent(parts, loop.added)
                wrote == loop.added # <<>>
            IN [files |-> IF wrote
                          THEN [loop.files EXCEPT ![key] =
                                  [exists |-> TRUE, content |-> updated, mtime |-> t]]
                          ELSE loop.files,
                store |-> IF wrote /\ ~skip
                          THEN UpdateVectorStore(st, s, note_id, updated, t)
                          ELSE st,
                raised |-> FALSE, added |-> loop.added, wrote |-> wrote,
                backlink_writes |-> loop.backlink_writes,
                vector_updated |-> wrote /\ ~skip]

\* one call of update_obsidian_links
UpdateObsidianLinks(path, lnks, ub, skip) ==
    LET r == UpdateObsidianLinksOp(files, Store, seed, now, path, lnks, ub, skip)
    IN /\ files' = r.files
       /\ notes' = r.store.notes
       /\ links' = r.store.links
       /\ refs' = r.store.refs
       /\ meta' = r.store.meta
       /\ last' = [op |-> "update_obsidian_links", path |-> path,
                   note_id |-> RelativeId(path), links |-> lnks,
                   update_backlinks |-> ub, skip_vector_update |-> skip,
                   raised |-> r.raised, added |-> r.added, wrote |-> r.wrote,
                   backlink_writes |-> r.backlink_writes,
                   vector_updated |-> r.vector_updated,
                   original |-> IF FileExists(files, path)
                                THEN files[FileKey(path)].content ELSE <<>>]
       /\ UNCHANGED <<sys, seed, now>>

\* update_obsidian_links when the file system fails it: fault "read" is an
\* IOError of the open for reading, fault "write" one of the open for
\* writing the note.  The loop over the links, with its backlink updates,
\* lies between the two; the store is not reached.
UpdateObsidianLinksFaultOp(fs, st, t, path, lnks, ub, fault) ==
    LET note_id == RelativeId(path)
        key == FileKey(path)
        parts == SplitAtRule(fs[key].content)
        loop == AddLinks(lnks, parts.main \o parts.links, st, note_id, path,
                         ub, t, fs, [added |-> <<>>, writes |-> <<>>])
    IN IF fault = "read"
       THEN [files |-> fs, raised |-> TRUE, added |-> <<>>, backlink_writes |-> <<>>]
       ELSE [files |-> loop.files, raised |-> loop.added # <<>>, added |-> loop.added,
             backlink_writes |-> loop.backlink_writes]

\* one call of update_obsidian_links that meets an I/O error
UpdateObsidianLinksFault(path, lnks, ub, skip, fault) ==
    LET r == UpdateObsidianLinksFaultOp(files, Store, now, path, lnks, ub, fault)
    IN /\ FileExists(files, path)
       /\ r.raised
       /\ files' = r.files
       /\ last' = [op |-> "update_obsidian_links", path |-> path,
                   note_id |-> RelativeId(path), links |-> lnks,
                   update_backlinks |-> ub, skip_vector_update |-> skip,
                   raised |-> TRUE, added |-> r.added, wrote |-> FALSE,
                   backlink_writes |-> r.backlink_writes,
                   vector_updated |-> FALSE,
                   original |-> files[FileKey(path)].content]
       /\ UNCHANGED <<notes, links, refs, meta, sys, seed, now>>

(***************************************************************************)
(* The specification of the link updates: note files saved by the user,    *)
(* indexed by kb --reindex, and links added to them.                       *)
(***************************************************************************)
CMd == <<"C", ".md">>
AbsPath(id) == <<"/home/u/", "notes/">> \o id

LBody == <<W("Body"), NL>>
LTwice == <<Wiki(BMd, <<>>), SP, Wiki(BMd, <<"note B">>)>>
LNamesake == <<W("Ask"), SP, Wiki(<<"B", "ob">>, <<>>)>>
LSection == <<W("Body"), NL, NL, Heading("## Related"), NL, [k |-> "w", t |-> BMd, a |-> <<>>]>>
LRuled == <<W("Body"), NL, HR, NL, W("kept"), NL>>
LAboutB == <<W("About B")>>

LinkContents(path) ==
    IF path = AMd THEN {LBody, LTwice, LNamesake, LSection, LRuled}
    ELSE {LAboutB}

AddLink(target) == [target_id |-> target, add_wiki_link |-> TRUE]
LinkLists ==
    {<<AddLink(BMd)>>, <<AddLink(BMd), AddLink(BMd)>>, <<AddLink(CMd)>>,
     <<[target_id |-> CMd, add_wiki_link |-> FALSE]>>}

\* the user creates a note file
LinkWrite == \E path \in Paths : \E content \in LinkContents(path) :
                ~files[path].exists /\ WriteNote(path, content)
LinkIndex == ProcessKnowledgeBase("reindex", FALSE, seed)
LinkUpdate == \E lnks \in LinkLists, ub \in BOOLEAN, skip \in BOOLEAN :
                 UpdateObsidianLinks(AbsPath(AMd), lnks, ub, skip)

LinkFault == \E lnks \in LinkLists, ub \in BOOLEAN, fault \in {"read", "write"} :
                UpdateObsidianLinksFault(AbsPath(AMd), lnks, ub, FALSE, fault)

NextLinks == LinkWrite \/ LinkIndex \/ LinkUpdate \/ LinkFault

SpecLinks == Init /\ [][NextLinks]_vars

(***************************************************************************)
(* The specification of the queries: a store filled by add_document and    *)
(* the read operations on it.                                              *)
(***************************************************************************)
DotA == <<"./", "A">>
D == <<"D">>
H == <<"H">>

QDocA == [chunks |-> <<cSeeB>>, embs |-> <<0>>]
QDocB == [chunks |-> <<cPlain>>, embs |-> <<2>>]
QDocDotA == [chunks |-> <<cPlain>>, embs |-> <<1>>]
QDocC == [chunks |-> <<cSeeA>>, embs |-> <<22>>]
QDocD == [chunks |-> <<cPlain, cExt>>, embs |-> <<4, 12>>]

QueryDocIds == {A, B, C, D, DotA, H}
QueryDocs(d) ==
    IF d = A THEN {QDocA}
    ELSE IF d = H THEN {DocHub}
    ELSE IF d = B THEN {QDocB}
    ELSE IF d = C THEN {QDocC}
    ELSE IF d = D THEN {QDocD}
    ELSE {QDocDotA}

QueryArgs == {A, DotA, <<"/home/u/", "notes/", "A">>, B}
QueryVectors == {0, 12}
QueryLimits == {1, SemanticLimit}
QueryThresholds == {{}, {-10}, {-5}, {0}, {5}, {10}}

QueryAdd == \E d \in QueryDocIds : \E doc \in QueryDocs(d) : AddDocument(d, doc, NoMeta)
QuerySimilar == \E q \in QueryVectors, limit \in QueryLimits, th \in QueryThresholds :
                    FindSimilar(q, limit, th, {})
QueryConnected == \E d \in QueryDocIds : FindConnectedNotes(d)
QueryBacklinks == \E d \in QueryDocIds : FindBacklinks(d)
QueryAnalyze == \E arg \in QueryArgs : AnalyzeRelationships(arg)

NextQuery == QueryAdd \/ QuerySimilar \/ QueryConnected \/ QueryBacklinks \/ QueryAnalyze

SpecQuery == Init /\ [][NextQuery]_vars

(***************************************************************************)
(* The specification of the ranking: note A and candidate notes with one   *)
(* to three chunks at several similarities to it, and the analysis of A.   *)
(***************************************************************************)
RankDoc(embs) == [chunks |-> [i \in 1..Len(embs) |-> cPlain], embs |-> embs]

RankDocIds == {A, B, D}

RankDocs(d) ==
    IF d = A THEN {RankDoc(<<0>>)}
    ELSE {RankDoc(<<1>>), RankDoc(<<1, 1>>), RankDoc(<<1, 4, 4>>),
          RankDoc(<<2, 3>>), RankDoc(<<2, 4, 6>>)}

RankAdd == \E d \in RankDocIds : \E doc \in RankDocs(d) :
              /\ \A r \in notes : r.doc_id # d
              /\ AddDocument(d, doc, NoMeta)
RankAnalyze == AnalyzeRelationships(A)

NextRank == RankAdd \/ RankAnalyze

SpecRank == Init /\ [][NextRank]_vars

(***************************************************************************)
(* Storage failures.  A call of the storage engine ends in one of three    *)
(* ways: "ok", "transient" (sqlite3.OperationalError) or "fatal" (any      *)
(* other exception).                                                       *)
(***************************************************************************)
MAX_RETRIES == 3
RETRY_DELAY == 1
Outcomes == {"ok", "transient", "fatal"}

\* the sleep after the failed attempt number `attempt` (counted from 0):
\* a variant that waits the same time after every attempt
ConstantDelay(attempt) == RETRY_DELAY

\* time.sleep(RETRY_DELAY * (attempt + 1))
BackoffDelay(attempt) == RETRY_DELAY * (attempt + 1)

RECURSIVE RetryFrom(_, _, _)
\* the for loop of _retry_operation from attempt `attempt` on; outs[i] is
\* how the i-th call of the operation ends
RetryFrom(outs, attempt, sleeps) ==
    IF attempt >= MAX_RETRIES
    THEN [status |-> "raised", error |-> "transient", calls |-> attempt, sleeps |-> sleeps]
    ELSE IF outs[attempt + 1] = "ok"
    THEN [status |-> "returned", error |-> "none", calls |-> attempt + 1, sleeps |-> sleeps]
    ELSE IF outs[attempt + 1] = "transient"
    THEN RetryFrom(outs, attempt + 1,
                   IF attempt < MAX_RETRIES - 1
                   THEN Append(sleeps, BackoffDelay(attempt))
                   ELSE sleeps)
    ELSE [status |-> "raised", error |-> "fatal", calls |-> attempt + 1, sleeps |-> sleeps]

\* _retry_operation(operation)
RetryOperation(outs) == RetryFrom(outs, 0, <<>>)

\* set_last_update_time(timestamp) when the upsert ends as outs says: an
\* exception of _retry_operation is logged, the call returns
SetLastUpdateTimeCall(t, outs) ==
    LET r == RetryOperation(outs)
    IN /\ sys' = IF r.status = "returned" THEN SetLastUpdateTime(sys, t) ELSE sys
       /\ last' = [op |-> "set_last_update_time", timestamp |-> t, outs |-> outs,
                   retry |-> r, storage_failed |-> r.status = "raised",
                   raised |-> FALSE]
       /\ UNCHANGED <<notes, links, refs, meta, seed, now, files>>

\* find_similar when the query of the notes collection raises: the error
\* is logged and the empty list returned
FindSimilarFault(q, limit, threshold) ==
    /\ last' = [op |-> "find_similar", query |-> q, limit |-> limit,
                threshold |-> threshold, out |-> <<>>,
                storage_failed |-> TRUE, raised |-> FALSE]
    /\ UNCHANGED <<notes, links, refs, meta, sys, seed, now, files>>

\* update_document when a storage call raises.  fault "delete": the delete
\* on notes raises a non-transient error, which is logged and raised again.
\* fault "metadata_get": the read of the stored metadata raises, which is
\* logged; the update goes on with empty metadata and returns.
UpdateDocumentFault(d, doc, fault) ==
    LET st == IF fault = "delete" THEN Store
              ELSE AddDocumentOp([Store EXCEPT !.notes = DeleteChunks(notes, d),
                                               !.links = DeleteLinks(links, d)],
                                 seed, d, doc.chunks, doc.embs,
                                 MetaSet(NoMeta, "modified_time", now))
    IN /\ notes' = st.notes
       /\ links' = st.links
       /\ refs' = st.refs
       /\ meta' = st.meta
       /\ last' = [op |-> "update_document", doc_id |-> d, chunks |-> doc.chunks,
                   embs |-> doc.embs, metadata |-> None,
                   had |-> Cardinality({r \in notes : r.doc_id = d}),
                   fault |-> fault, storage_failed |-> TRUE,
                   raised |-> fault = "delete"]
       /\ UNCHANGED <<sys, seed, now, files>>

\* _update_vector_store(note_id, content) when update_document raises: the
\* error is logged and the call returns, the store as it was
UpdateVectorStoreFault(note_id, content) ==
    /\ last' = [op |-> "_update_vector_store", doc_id |-> note_id,
                chunks |-> ChunkDocument(content),
                storage_failed |-> TRUE, raised |-> FALSE]
    /\ UNCHANGED <<notes, links, refs, meta, sys, seed, now, files>>

\* a variant that also asks for documents whose stored time is the same
NeedsUpdateOrSame(coll, d, t) ==
    LET found == {r \in coll : r.id = d}
    IN IF found = {} THEN TRUE
       ELSE t >= (CHOOSE r \in found : TRUE).modified_time

\* needs_update(doc_id, modified_time)
NeedsUpdateOp(coll, d, t) ==
    LET found == {r \in coll : r.id = d}
    IN IF found = {} THEN TRUE
       ELSE t > (CHOOSE r \in found : TRUE).modified_time

\* a call of needs_update
NeedsUpdate(d, t) ==
    /\ last' = [op |-> "needs_update", doc_id |-> d, modified_time |-> t,
                out |-> NeedsUpdateOp(meta, d, t)]
    /\ UNCHANGED <<notes, links, refs, meta, sys, seed, now, files>>

(***************************************************************************)
(* The specification of the failures: a store filled by add_document, its  *)
(* operations called while storage calls fail, and needs_update.           *)
(***************************************************************************)
ErrTimes == 0..MaxTime
ErrMetas(d) == {NoMeta} \cup {NoteMeta(d, "note", t) : t \in ErrTimes}
OutcomeLists == [1..MAX_RETRIES -> Outcomes]

ErrAdd == \E doc \in {Doc1, Doc3} : \E m \in ErrMetas(A) : AddDocument(A, doc, m)
ErrSetTime == \E t \in ErrTimes \ {0}, outs \in OutcomeLists : SetLastUpdateTimeCall(t, outs)
ErrSimilar == \E th \in {{}, {5}} : FindSimilarFault(0, SemanticLimit, th)
ErrUpdate == \E doc \in {Doc0, Doc1}, fault \in {"delete", "metadata_get"} :
                UpdateDocumentFault(A, doc, fault)
ErrRefresh == UpdateVectorStoreFault(A, Note1)
ErrNeeds == \E d \in DocIds, t \in 0..(MaxTime + 1) : NeedsUpdate(d, t)

NextErr == ErrAdd \/ ErrSetTime \/ ErrSimilar \/ ErrUpdate \/ ErrRefresh \/ ErrNeeds

SpecErr == Init /\ [][NextErr]_vars

(***************************************************************************)
(* Chunk sizes.  chunk_document measured in characters: a document is the  *)
(* list of the lengths of the segments its splitter finds, a content is a  *)
(* list of segments and separators.  The two size limits are the           *)
(* configuration values chunk_size_min and chunk_size_max, scaled down.    *)
(***************************************************************************)
MinChunkSize == 2
MaxChunkSize == 4
MaxSegs == 2

\* len('\\n'), the separator chunk_document joins a group with
JoinLen == 2

DocTypes == {"daily", "meeting", "weekly", "learning", "note"}

\* the splitter chunk_document picks for a document type
Splitter(doc_type) ==
    IF doc_type = "daily" THEN "_split_daily_notes"
    ELSE IF doc_type \in {"meeting", "weekly"} THEN "_split_by_headers"
    ELSE IF doc_type = "learning" THEN "_split_learning_notes"
    ELSE "_split_by_semantic_markers"

\* the i-th segment of a document, n characters long
Segments(lens) == [i \in 1..Len(lens) |-> [i |-> i, n |-> lens[i]]]

\* the last line of every splitter: [c for c in chunks if len(c) >= min]
InitialChunks(doc_type, lens) ==
    SelectSeq(Segments(lens), LAMBDA c : c.n >= MinChunkSize)

\* '\\n'.join(current_chunk): the segments with a separator between them
RECURSIVE Join(_)
Join(group) ==
    IF Len(group) <= 1 THEN group
    ELSE <<Head(group), [i |-> 0, n |-> JoinLen]>> \o Join(Tail(group))

\* len(content)
RECURSIVE ContentLen(_)
ContentLen(content) ==
    IF content = <<>> THEN 0 ELSE Head(content).n + ContentLen(Tail(content))

\* the loop of chunk_document: the groups it hands to _process_chunk_group
RECURSIVE Accumulate(_, _, _, _)
Accumulate(initial, current_chunk, current_size, groups) ==
    IF initial = <<>>
    THEN IF current_chunk # <<>> THEN Append(groups, current_chunk) ELSE groups
    ELSE LET chunk == Head(initial)
         IN IF current_size + chunk.n <= MaxChunkSize
            THEN Accumulate(Tail(initial), Append(current_chunk, chunk),
                            current_size + chunk.n, groups)
            ELSE Accumulate(Tail(initial), <<chunk>>, chunk.n,
                            IF current_chunk # <<>>
                            THEN Append(groups, current_chunk) ELSE groups)

Buffers(doc_type, lens) ==
    LET groups == Accumulate(InitialChunks(doc_type, lens), <<>>, 0, <<>>)
    IN [g \in 1..Len(groups) |-> Join(groups[g])]

\* what the language model does with one group: it answers with the
\* group's segments as chunks, its call raises, or its answer is not JSON
LlmOutcomes == {"ok", "raises", "unparsable"}

LlmFailed(outcome) == outcome \in {"raises", "unparsable"}

\* a variant whose except branch returns nothing for the group
ProcessChunkGroupDropping(content, doc_type, outcome) ==
    IF LlmFailed(outcome) THEN <<>>
    ELSE LET parts == SelectSeq(content, LAMBDA c : c.i # 0)
         IN [p \in 1..Len(parts) |->
                [content |-> <<parts[p]>>, char_count |-> parts[p].n,
                 semantic_chunk |-> TRUE, doc_type |-> doc_type]]

\* _process_chunk_group(content, doc_type, ...)
ProcessChunkGroup(content, doc_type, outcome) ==
    IF LlmFailed(outcome)
    THEN <<[content |-> content, char_count |-> ContentLen(content),
            semantic_chunk |-> FALSE, doc_type |-> doc_type]>>
    ELSE LET parts == SelectSeq(content, LAMBDA c : c.i # 0)
         IN [p \in 1..Len(parts) |->
                [content |-> <<parts[p]>>, char_count |-> parts[p].n,
                 semantic_chunk |-> TRUE, doc_type |-> doc_type]]

RECURSIVE ProcessedChunks(_, _, _)
ProcessedChunks(buffers, doc_type, outs) ==
    IF buffers = <<>> THEN <<>>
    ELSE ProcessChunkGroup(Head(buffers), doc_type, Head(outs))
         \o ProcessedChunks(Tail(buffers), doc_type, Tail(outs))

\* chunk_document(content, doc_type)
ChunkDocumentSized(doc_type, lens, outs) ==
    ProcessedChunks(Buffers(doc_type, lens), doc_type, outs)

\* a call of chunk_document on a document with these segments, the language
\* model answering the groups as outs says
ChunkDocumentCall(doc_type, lens, outs) ==
    /\ Len(outs) = Len(Buffers(doc_type, lens))
    /\ last' = [op |-> "chunk_document", doc_type |-> doc_type,
                splitter |-> Splitter(doc_type),
                content |-> Segments(lens),
                buffers |-> Buffers(doc_type, lens),
                outs |-> outs,
                chunks |-> ChunkDocumentSized(doc_type, lens, outs),
                raised |-> FALSE]
    /\ UNCHANGED <<notes, links, refs, meta, sys, seed, now, files>>

SegLens == 1..(MaxChunkSize + 1)

SegLists == UNION {[1..k -> SegLens] : k \in 1..MaxSegs}

\* chunk_document keeps nothing between calls: a behaviour is one call
ChunkCall ==
    /\ last.op = "init"
    /\ \E doc_type \in DocTypes, lens \in SegLists :
         \E outs \in [1..Len(Buffers(doc_type, lens)) -> LlmOutcomes] :
             ChunkDocumentCall(doc_type, lens, outs)

NextChunk == ChunkCall

SpecChunk == Init /\ [][NextChunk]_vars

(***************************************************************************)
(* embed_chunks and its batches.  A call of the underlying model,          *)
(* model.embed_documents(batch), gives one vector per text of the batch,   *)
(* in order.                                                               *)
(***************************************************************************)
MaxTexts == 4
MaxBatch == 3

ModelTypes == {"openai", "huggingface", "ollama"}

EmbedDocuments(batch) == EmbedChunks(batch)

\* a variant whose slice is one text longer than the step
RECURSIVE BatchesOverlapping(_, _, _)
BatchesOverlapping(chunks, i, batch_size) ==
    IF i > Len(chunks) THEN <<>>
    ELSE <<SubSeq(chunks, i, Min(i + batch_size, Len(chunks)))>>
         \o BatchesOverlapping(chunks, i + batch_size, batch_size)

\* for i in range(0, len(chunks), batch_size): chunks[i : i + batch_size]
RECURSIVE Batches(_, _, _)
Batches(chunks, i, batch_size) ==
    IF i > Len(chunks) THEN <<>>
    ELSE <<SubSeq(chunks, i, Min(i + batch_size - 1, Len(chunks)))>>
         \o Batches(chunks, i + batch_size, batch_size)

RECURSIVE Extend(_)
\* all_embeddings after extend() with every batch's vectors
Extend(results) ==
    IF results = <<>> THEN <<>> ELSE Head(results) \o Extend(Tail(results))

\* embed_chunks(chunks): the calls of the model it makes and what it returns
EmbedChunksOp(model_type, batch_size, chunks) ==
    LET calls == IF model_type = "ollama" THEN <<chunks>>
                 ELSE Batches(chunks, 1, batch_size)
    IN [calls |-> calls,
        out |-> Extend([c \in 1..Len(calls) |-> EmbedDocuments(calls[c])])]

EmbedChunksCall(model_type, batch_size, chunks) ==
    LET r == EmbedChunksOp(model_type, batch_size, chunks)
    IN /\ last' = [op |-> "embed_chunks", model_type |-> model_type,
                   batch_size |-> batch_size, chunks |-> chunks,
                   calls |-> r.calls, out |-> r.out]
       /\ UNCHANGED <<notes, links, refs, meta, sys, seed, now, files>>

EmbedTexts == UNION {[1..n -> {cPlain, cSeeB, cExt}] : n \in 0..MaxTexts}

\* embed_chunks keeps nothing between calls: a behaviour is one call
EmbedCall ==
    /\ last.op = "init"
    /\ \E model_type \in ModelTypes, batch_size \in 1..MaxBatch, chunks \in EmbedTexts :
          EmbedChunksCall(model_type, batch_size, chunks)

NextEmbed == EmbedCall

SpecEmbed == Init /\ [][NextEmbed]_vars

(***************************************************************************)
(* The storage writes of one call, one by one.  A write is a record: its   *)
(* kind, whether it is issued through _retry_operation, and the records    *)
(* it upserts (or the document whose records it deletes).                  *)
(***************************************************************************)
\* the upserts _store_link_relationships issues for one chunk: one per wiki
\* link, then one per external reference, each a direct call
ChunkEdgeWrites(s, d, chunk) ==
    LET ws == ExtractWikiLinks(chunk)
        es == ExtractExternalRefs(chunk)
    IN [i \in 1..Len(ws) |->
           [kind |-> "upsert_links", retried |-> FALSE, doc_id |-> d,
            recs |-> <<LinkRecord(d, ws[i].target, chunk)>>]]
       \o [i \in 1..Len(es) |->
           [kind |-> "upsert_references", retried |-> FALSE, doc_id |-> d,
            recs |-> <<RefRecord(s, d, es[i], chunk)>>]]

RECURSIVE EdgeWrites(_, _, _)
EdgeWrites(s, d, chunks) ==
    IF chunks = <<>> THEN <<>>
    ELSE ChunkEdgeWrites(s, d, Head(chunks)) \o EdgeWrites(s, d, Tail(chunks))

\* the writes of add_document(doc_id, chunks, embeddings, metadata)
AddDocumentWrites(s, d, chunks, embs, m) ==
    (IF Len(chunks) > 0
     THEN <<[kind |-> "upsert_notes", retried |-> TRUE, doc_id |-> d,
             recs |-> [i \in 1..Len(chunks) |->
                          ChunkRecord(d, i - 1, chunks[i], embs[i], m)]]>>
     ELSE <<>>)
    \o EdgeWrites(s, d, chunks)
    \o (IF DOMAIN m # {} /\ "modified_time" \in DOMAIN m
        THEN <<[kind |-> "upsert_metadata", retried |-> TRUE, doc_id |-> d,
                recs |-> <<[id |-> d, modified_time |-> m["modified_time"]]>>]>>
        ELSE <<>>)

\* the writes of update_document(doc_id, new_chunks, new_embeddings, metadata)
UpdateDocumentWrites(st, s, d, chunks, embs, m, t) ==
    LET m1 == IF IsNone(m) THEN ExistingMeta(st.meta, d) ELSE m
        m2 == MetaSet(m1, "modified_time", t)
    IN <<[kind |-> "delete_notes", retried |-> TRUE, doc_id |-> d, recs |-> <<>>],
         [kind |-> "delete_links", retried |-> TRUE, doc_id |-> d, recs |-> <<>>]>>
       \o AddDocumentWrites(s, d, chunks, embs, m2)

\* the store after one write
ApplyWrite(st, w) ==
    IF w.kind = "delete_notes" THEN [st EXCEPT !.notes = DeleteChunks(st.notes, w.doc_id)]
    ELSE IF w.kind = "delete_links" THEN [st EXCEPT !.links = DeleteLinks(st.links, w.doc_id)]
    ELSE IF w.kind = "upsert_notes" THEN [st EXCEPT !.notes = UpsertAll(st.notes, w.recs)]
    ELSE IF w.kind = "upsert_links" THEN [st EXCEPT !.links = UpsertAll(st.links, w.recs)]
    ELSE IF w.kind = "upsert_references" THEN [st EXCEPT !.refs = UpsertAll(st.refs, w.recs)]
    ELSE [st EXCEPT !.meta = UpsertAll(st.meta, w.recs)]

RECURSIVE StatesAfter(_, _)
\* the stores after the first, the first two, ... of the writes
StatesAfter(st, ws) ==
    IF ws = <<>> THEN <<>>
    ELSE <<ApplyWrite(st, Head(ws))>> \o StatesAfter(ApplyWrite(st, Head(ws)), Tail(ws))

\* the store after the first k writes
StateAfter(st, ws, k) == IF k = 0 THEN st ELSE StatesAfter(st, ws)[k]

\* how a write ends whose calls of the storage engine end as outs says
WriteEnds(w, outs) ==
    IF w.retried THEN RetryOperation(outs).status
    ELSE IF outs[1] = "ok" THEN "returned" ELSE "raised"

\* a call with these writes; the k-th write meets the outcomes outs and all
\* others succeed at once (k = 0: every write succeeds)
RunWrites(op, d, doc, m, ws, k, outs) ==
    LET raised == k > 0 /\ WriteEnds(ws[k], outs) = "raised"
        done == IF raised THEN k - 1 ELSE Len(ws)
        st == StateAfter(Store, ws, done)
    IN /\ notes' = st.notes
       /\ links' = st.links
       /\ refs' = st.refs
       /\ meta' = st.meta
       /\ last' = [op |-> op, doc_id |-> d, chunks |-> doc.chunks,
                   embs |-> doc.embs, metadata |-> m,
                   before |-> Store, writes |-> ws,
                   states |-> StatesAfter(Store, SubSeq(ws, 1, done)),
                   fault_at |-> k,
                   outs |-> IF k > 0 THEN outs ELSE <<>>,
                   raised |-> raised]
       /\ UNCHANGED <<sys, seed, now, files>>

\* add_document, write by write
AddDocumentSteps(d, doc, m, k, outs) ==
    LET ws == AddDocumentWrites(seed, d, doc.chunks, doc.embs, m)
    IN k <= Len(ws) /\ RunWrites("add_document", d, doc, m, ws, k, outs)

\* update_document, write by write
UpdateDocumentSteps(d, doc, m, k, outs) ==
    LET ws == UpdateDocumentWrites(Store, seed, d, doc.chunks, doc.embs, m, now)
    IN k <= Len(ws) /\ RunWrites("update_document", d, doc, m, ws, k, outs)

cOther == <<Wiki(C, <<>>), SP, Ext(<<"other link">>, <<"u2">>)>>
DocOther == [chunks |-> <<cOther>>, embs |-> <<2>>]

StepDocs == {Doc0, Doc2, DocOther}
StepMetas(d) == {None, NoteMeta(d, "daily", now)}

\* one transient error, a non-transient error, transient errors throughout
FaultOutcomes ==
    {<<"transient", "ok", "ok">>, <<"fatal", "ok", "ok">>,
     <<"transient", "transient", "transient">>}

MaxWrites == 6

\* a behaviour is the first indexing of A and one more call on it
StepAdd ==
    /\ last.op = "init"
    /\ \E doc \in StepDocs :
          AddDocumentSteps(A, doc, NoteMeta(A, "daily", now), 0, <<>>)
StepAddFault ==
    /\ last.op = "init"
    /\ \E doc \in StepDocs, k \in 1..MaxWrites, outs \in FaultOutcomes :
          AddDocumentSteps(A, doc, NoteMeta(A, "daily", now), k, outs)
StepUpdate ==
    /\ last.op = "add_document" /\ ~last.raised
    /\ \E doc \in StepDocs, m \in StepMetas(A) :
          UpdateDocumentSteps(A, doc, m, 0, <<>>)
StepUpdateFault ==
    /\ last.op = "add_document" /\ ~last.raised
    /\ \E doc \in StepDocs, m \in StepMetas(A), k \in 1..MaxWrites,
          outs \in FaultOutcomes :
          UpdateDocumentSteps(A, doc, m, k, outs)

NextSteps == StepAdd \/ StepUpdate \/ StepAddFault \/ StepUpdateFault

SpecSteps == Init /\ [][NextSteps]_vars

(***************************************************************************)
(* A run of `kb --update` in two steps, with the user saving notes in      *)
(* between: the scan that reads the note files and selects the modified    *)
(* ones, and the rest of the run, which reads the clock, indexes what the  *)
(* scan read and stores the clock value as last_update.  The run in        *)
(* progress is kept in `last`.                                             *)
(***************************************************************************)
\* the user saves a note file while a run may be in progress; a save made
\* after a run has read the clock is later than that reading
SaveNote(path, content) ==
    /\ GetLastUpdateTime < now
    /\ files' = [files EXCEPT ![path] = [exists |-> TRUE, content |-> content,
                                         mtime |-> now]]
    /\ UNCHANGED <<notes, links, refs, meta, sys, seed, now, last>>

\* get_last_update_time, get_all_notes and the selection; a run that
\* selects nothing returns at once
ScanNotes ==
    LET selected == SelectedNotes("update")
    IN /\ last' = [op |-> "kb_update", pc |-> IF selected = <<>> THEN "done" ELSE "scanned",
                   entries |-> selected, before |-> GetLastUpdateTime,
                   recorded |-> FALSE]
       /\ UNCHANGED <<notes, links, refs, meta, sys, seed, now, files>>

\* the timestamp the run stores: current_time, read after the scan
FinishStamp(entries, t, before) == t

\* current_time = time.time(), the loop over the scanned entries and
\* set_last_update_time(current_time); the clock has moved on since the
\* last save
IndexScanned ==
    LET st == IndexNotes(Store, seed, last.entries)
    IN /\ last.op = "kb_update" /\ last.pc = "scanned"
       /\ \A p \in Paths : files[p].exists => files[p].mtime < now
       /\ notes' = st.notes
       /\ links' = st.links
       /\ refs' = st.refs
       /\ meta' = st.meta
       /\ sys' = SetLastUpdateTime(sys, FinishStamp(last.entries, now, last.before))
       /\ last' = [last EXCEPT !.pc = "done", !.recorded = TRUE]
       /\ UNCHANGED <<seed, now, files>>

ScanContents(path) == IF path = AMd THEN {Note1, Note3} ELSE {NoteB}

ScanSave == \E path \in Paths : \E content \in ScanContents(path) : SaveNote(path, content)
ScanStart == (last.op = "kb_update" => last.pc = "done") /\ ScanNotes
ScanFinish == IndexScanned

NextScan == ScanSave \/ Tick \/ ScanStart \/ ScanFinish

SpecScan == Init /\ [][NextScan]_vars

(***************************************************************************)
(* Documents and link targets whose names hold the text "_to_".            *)
(***************************************************************************)
AtoB == <<"A", "_to_", "B">>
BtoC == <<"B", "_to_", "C">>

IdDocIds == {A, AtoB}

\* A links to the note "B_to_C", the note "A_to_B" links to C
IdDocs(d) ==
    IF d = A THEN {[chunks |-> <<<<Wiki(BtoC, <<>>)>>>>, embs |-> <<0>>], Doc1}
    ELSE {[chunks |-> <<<<Wiki(C, <<>>)>>>>, embs |-> <<2>>], Doc1}

IdAdd == \E d \in IdDocIds : \E doc \in IdDocs(d) :
            AddDocumentSteps(d, doc, NoMeta, 0, <<>>)
IdUpdate == \E d \in IdDocIds : \E doc \in IdDocs(d) :
               UpdateDocumentSteps(d, doc, None, 0, <<>>)

NextIds == IdAdd \/ IdUpdate

SpecIds == Init /\ [][NextIds]_vars

(***************************************************************************)
(* What the store holds for one document.                                  *)
(***************************************************************************)
ChunksOf(d) == {r \in notes : r.doc_id = d}
LinksOf(d) == {r \in links : r.source_id = d}
RefsOf(d) == {r \in refs : r.source_id = d}

\* the wiki targets and the urls a list of chunks mentions
TargetsIn(chunks) ==
    UNION {{w.target : w \in Range(ExtractWikiLinks(chunks[i]))} : i \in 1..Len(chunks)}
UrlsIn(chunks) ==
    UNION {{e.url : e \in Range(ExtractExternalRefs(chunks[i]))} : i \in 1..Len(chunks)}

Updated == last.op = "update_document"

(***************************************************************************)
(* C1: after update_document(D, new_chunks, ...) has returned, the chunk   *)
(* records of D in notes are exactly D_chunk_0 .. D_chunk_{n-1} with       *)
(* n = len(new_chunks), whatever D had before.                             *)
(***************************************************************************)
C1_UpdateLeavesExactlyNewChunks ==
    Updated =>
        /\ {r.id : r \in ChunksOf(last.doc_id)}
             = {ChunkId(last.doc_id, i - 1) : i \in 1..Len(last.chunks)}
        /\ Cardinality(ChunksOf(last.doc_id)) = Len(last.chunks)
        /\ \A r \in ChunksOf(last.doc_id) :
                r.document = last.chunks[r.chunk_index + 1]

\* D had 3 chunks, is updated with 1 chunk and is left with 1 record
C1_Witness ==
    /\ Updated
    /\ last.had = 3
    /\ Len(last.chunks) = 1
    /\ Cardinality(ChunksOf(last.doc_id)) = 1

(***************************************************************************)
(* C3: after update_document(D, ...) has returned, the edges stored for    *)
(* source D in links and in references are exactly the edges of the new    *)
(* chunks; no edge of D's previous content survives.                       *)
(***************************************************************************)
C3_UpdateLeavesOnlyNewEdges ==
    Updated =>
        /\ {r.target_id : r \in LinksOf(last.doc_id)} = TargetsIn(last.chunks)
        /\ {r.url : r \in RefsOf(last.doc_id)} = UrlsIn(last.chunks)

(***************************************************************************)
(* C4: update_document is idempotent on record counts: right after         *)
(* update_document(D, chunks, embeddings) has returned, the same call made *)
(* again (at the same or a later time) leaves as many chunk records of D   *)
(* and as many links and references records with source D as there are.    *)
(***************************************************************************)
Counts(st, d) ==
    <<Cardinality({r \in st.notes : r.doc_id = d}),
      Cardinality({r \in st.links : r.source_id = d}),
      Cardinality({r \in st.refs : r.source_id = d})>>

C4_UpdateTwiceCountsAsOnce ==
    Updated =>
        \A t \in now..MaxTime :
            Counts(UpdateDocumentOp(Store, seed, last.doc_id, last.chunks,
                                    last.embs, last.metadata, t), last.doc_id)
              = Counts(Store, last.doc_id)

\* an update that replaced 3 chunks by 2 and left edges of D behind it
C4_Witness ==
    /\ Updated
    /\ last.had = 3
    /\ Len(last.chunks) = 2
    /\ LinksOf(last.doc_id) # {}
    /\ Cardinality(RefsOf(last.doc_id)) >= 2
    /\ Cardinality(UrlsIn(last.chunks)) = 1

(***************************************************************************)
(* C5: edge upsert is idempotent, also across program runs on the same     *)
(* persisted store: links holds at most one record per (source_id,         *)
(* target) and references at most one record per (source_id, url).         *)
(***************************************************************************)
C5_OneRecordPerEdge ==
    /\ \A r1, r2 \in links :
          (r1.source_id = r2.source_id /\ r1.target_id = r2.target_id) => r1 = r2
    /\ \A r1, r2 \in refs :
          (r1.source_id = r2.source_id /\ r1.url = r2.url) => r1 = r2

(***************************************************************************)
(* C2: a kb --reindex / kb --update run replaces all chunk records of      *)
(* every document it indexes: after the run, notes holds for each indexed  *)
(* document only the chunks produced by that run.                          *)
(***************************************************************************)
C2_ReindexReplacesAllChunks ==
    last.op = "kb" =>
        \A d \in last.indexed :
            {r.id : r \in ChunksOf(d)}
              = {ChunkId(d, i - 1) : i \in 1..Len(ChunkDocument(files[d].content))}

(***************************************************************************)
(* C6: find_connected_notes(d) returns exactly one record for each edge    *)
(* of links whose source_id is d, and find_backlinks(d) exactly one record *)
(* for each edge whose target_id is d, however many such edges exist.      *)
(***************************************************************************)
C6_OneRecordPerMatchingEdge ==
    /\ last.op = "find_connected_notes" =>
          LET S == {r \in links : r.source_id = last.doc_id}
          IN /\ Len(last.out) = Cardinality(S)
             /\ {last.out[i].target_id : i \in 1..Len(last.out)}
                  = {r.target_id : r \in S}
    /\ last.op = "find_backlinks" =>
          LET S == {r \in links : r.target_id = last.doc_id}
          IN /\ Len(last.out) = Cardinality(S)
             /\ {last.out[i].source_id : i \in 1..Len(last.out)}
                  = {r.source_id : r \in S}

(***************************************************************************)
(* C7: for every supplied threshold in [-1, 1], zero and negative values   *)
(* included, find_similar returns no result whose similarity is below the  *)
(* threshold.                                                              *)
(***************************************************************************)
C7_NeverBelowThreshold ==
    last.op = "find_similar" =>
        \A v \in last.threshold :
            \A i \in 1..Len(last.out) : last.out[i].similarity >= v

(***************************************************************************)
(* C8: no entry of analyze_relationships(N)['suggested_links'] has a       *)
(* note_id equal to N's own id, raw or path-normalized, to a target_id of  *)
(* N's direct_links or to a source_id of N's backlinks.                    *)
(***************************************************************************)
C8_SuggestionsExcludeSelfAndLinked ==
    last.op = "analyze_relationships" =>
        \A i \in 1..Len(last.suggested_links) :
            LET s == last.suggested_links[i].note_id
            IN /\ s # last.note_id
               /\ NormPath(s) # NormPath(last.note_id)
               /\ \A j \in 1..Len(last.direct_links) : s # last.direct_links[j].target_id
               /\ \A j \in 1..Len(last.backlinks) : s # last.backlinks[j].source_id

\* an analysis whose similar chunks hold the note itself, its id in another
\* spelling, a note it links to and a note that links to it, and which
\* still suggests something
C8_Witness ==
    /\ last.op = "analyze_relationships"
    /\ last.suggested_links # <<>>
    /\ \E i \in 1..Len(last.similar) : last.similar[i].doc_id = last.note_id
    /\ \E i \in 1..Len(last.similar) :
          /\ last.similar[i].doc_id # last.note_id
          /\ NormPath(last.similar[i].doc_id) = NormPath(last.note_id)
    /\ \E i \in 1..Len(last.similar), j \in 1..Len(last.direct_links) :
          last.similar[i].doc_id = last.direct_links[j].target_id
    /\ \E i \in 1..Len(last.similar), j \in 1..Len(last.backlinks) :
          last.similar[i].doc_id = last.backlinks[j].source_id

(***************************************************************************)
(* update_obsidian_links called once more with the arguments of the call   *)
(* that has just returned.                                                 *)
(***************************************************************************)
LinksUpdated == last.op = "update_obsidian_links" /\ ~last.raised
SecondCall ==
    UpdateObsidianLinksOp(files, Store, seed, now, last.path, last.links,
                          last.update_backlinks, last.skip_vector_update)
SecondCallWritesNothing ==
    /\ ~SecondCall.wrote
    /\ SecondCall.backlink_writes = <<>>
    /\ ~SecondCall.vector_updated
    /\ SecondCall.files = files
    /\ SecondCall.store = Store
Occurrences(content, target) ==
    Cardinality({i \in 1..Len(content) : content[i].k = "wiki" /\ content[i].t = target})
TimesAdded(target) ==
    Cardinality({i \in 1..Len(last.added) : last.added[i] = target})

(***************************************************************************)
(* C9 as stated: update_obsidian_links called twice on the same note with  *)
(* the same target leaves exactly one occurrence of the link to that       *)
(* target in the file, and the second call writes nothing.                 *)
(***************************************************************************)
C9_TwiceLeavesExactlyOneLink ==
    (LinksUpdated /\ Len(last.links) = 1 /\ last.links[1].add_wiki_link) =>
        /\ SecondCallWritesNothing
        /\ Occurrences(files[FileKey(last.path)].content, last.links[1].target_id) = 1

(***************************************************************************)
(* C9 amended: the second of two equal calls of update_obsidian_links      *)
(* writes nothing, whatever the note held; and the file holds exactly one  *)
(* occurrence of the link to every target that the first call added once,  *)
(* that is, every target named once in the list that the note did not      *)
(* reference before, by the tests of _has_wiki_link.                       *)
(***************************************************************************)
C9_SecondCallIsNoOp ==
    LinksUpdated =>
        /\ SecondCallWritesNothing
        /\ \A i \in 1..Len(last.links) :
              TimesAdded(last.links[i].target_id) = 1 =>
                 Occurrences(files[FileKey(last.path)].content,
                             last.links[i].target_id) = 1

\* a first call that added the link, updated the backlink and the store
C9_Witness ==
    /\ LinksUpdated
    /\ last.added = <<BMd>>
    /\ last.wrote
    /\ last.backlink_writes # <<>>
    /\ last.vector_updated

(***************************************************************************)
(* C10: when update_obsidian_links has added a link from note S to target  *)
(* T with update_backlinks set, the backlink [[S]] is in the file of T     *)
(* once the call has returned, and the file of S was not given a [[S]]     *)
(* reference to itself.                                                    *)
(***************************************************************************)
C10_BacklinkLandsInTarget ==
    (LinksUpdated /\ last.update_backlinks) =>
        \A i \in 1..Len(last.added) :
            LET T == last.added[i]
            IN (T \in Paths /\ files[T].exists /\ GetNoteContentOp(notes, T) # {}) =>
                  /\ HasBacklink(files[T].content, last.note_id)
                  /\ ~HasBacklink(files[FileKey(last.path)].content, last.note_id)
                  /\ \A j \in 1..Len(last.backlink_writes) :
                        last.backlink_writes[j] # FileKey(last.path)

(***************************************************************************)
(* C11: when reading or writing the note file fails, update_obsidian_links *)
(* raises and no backlink update and no vector-store update has been       *)
(* performed for that note.                                                *)
(***************************************************************************)
C11_FailureLeavesNoSideEffects ==
    (last.op = "update_obsidian_links" /\ last.raised) =>
        /\ last.backlink_writes = <<>>
        /\ ~last.vector_updated

(***************************************************************************)
(* C12: a storage-engine error raised during find_similar,                 *)
(* set_last_update_time, update_document or the index refresh of           *)
(* update_obsidian_links propagates to the caller: none of them returns    *)
(* normally after the underlying storage call failed.                      *)
(***************************************************************************)
C12_StorageErrorsPropagate ==
    (/\ last.op \in {"find_similar", "set_last_update_time", "update_document",
                     "_update_vector_store"}
     /\ "storage_failed" \in DOMAIN last
     /\ last.storage_failed)
        => last.raised

(***************************************************************************)
(* C14: _retry_operation calls the operation at most 3 times, returns at   *)
(* the first attempt that succeeds, waits 1 s and then 2 s between         *)
(* attempts that fail with a transient error, raises the last error after  *)
(* the third transient failure, and raises at once, without a further      *)
(* attempt, on any other exception.                                        *)
(***************************************************************************)
LeadingTransients(outs) ==
    CHOOSE n \in 0..Len(outs) :
        /\ \A i \in 1..n : outs[i] = "transient"
        /\ n < Len(outs) => outs[n + 1] # "transient"

C14_RetryAtMostThreeTimesWithBackoff ==
    last.op = "set_last_update_time" =>
        LET n == LeadingTransients(last.outs)
            r == last.retry
        IN /\ r.calls <= 3
           /\ r.sleeps = SubSeq(<<1, 2>>, 1, Min(n, 2))
           /\ n = 3 => r.status = "raised" /\ r.error = "transient" /\ r.calls = 3
           /\ (n < 3 /\ last.outs[n + 1] = "ok") =>
                 r.status = "returned" /\ r.calls = n + 1
           /\ (n < 3 /\ last.outs[n + 1] = "fatal") =>
                 r.status = "raised" /\ r.error = "fatal" /\ r.calls = n + 1

\* two transient failures, then success at the third attempt
C14_Witness ==
    /\ last.op = "set_last_update_time"
    /\ last.outs = <<"transient", "transient", "ok">>
    /\ last.retry.status = "returned"
    /\ last.retry.sleeps = <<1, 2>>

(***************************************************************************)
(* C17: needs_update(D, t) is true exactly when D has no entry in the      *)
(* metadata collection or its stored modified_time is older than t; after  *)
(* add_document(D, ..., metadata with modified_time = t0) it is true iff   *)
(* t > t0, and for a never-indexed D it is true for every t.               *)
(***************************************************************************)
MetaOf(d) == {r \in meta : r.id = d}

C13_FailedNoteDoesNotAbortRun ==
    (last.op = "kb" /\ last.raised) =>
        \A p \in last.selected \ {last.failed} :
            ChunkDocument(files[p].content) # <<>> => p \in last.indexed

(***************************************************************************)
(* C15: last_update_time is only ever the start time of a kb --update run  *)
(* in which every selected note was processed without error; a run that    *)
(* fails on some note, and a dry run, leave the stored time unchanged.     *)
(***************************************************************************)
C15_LastUpdateOnlyAfterSuccess ==
    last.op = "kb" =>
        /\ (last.raised \/ last.dry_run) => GetLastUpdateTime = last.before
        /\ GetLastUpdateTime # last.before =>
              /\ last.mode = "update" /\ ~last.dry_run /\ ~last.raised
              /\ GetLastUpdateTime = last.started
              /\ \A p \in last.selected :
                    ChunkDocument(files[p].content) # <<>> => p \in last.indexed

\* an --update run that fails on a note, after an earlier run had stored a
\* time
C15_Witness ==
    /\ last.op = "kb"
    /\ last.mode = "update"
    /\ last.raised
    /\ last.before > 0
    /\ last.started > last.before

(***************************************************************************)
(* C16: a kb --update run with stored last_update_time T0 selects exactly  *)
(* the notes whose modified_time is greater than T0.                       *)
(***************************************************************************)
C16_UpdateSelectsNewerNotes ==
    (last.op = "kb" /\ last.mode = "update") =>
        last.selected = {p \in Paths : files[p].exists /\ files[p].mtime > last.before}

\* a run with T0 > 0 that takes a note modified later and leaves out one
\* modified earlier
C16_Witness ==
    /\ last.op = "kb"
    /\ last.mode = "update"
    /\ last.before > 0
    /\ \E p \in last.selected : files[p].mtime > last.before
    /\ \E p \in Paths \ last.selected : files[p].exists /\ files[p].mtime < last.before


\* C18: every buffer chunk_document flushes, counted with the separators
\* that join its segments, is at most max_chunk_size characters long
C18_FlushedBuffersWithinMax ==
    last.op = "chunk_document" =>
        \A g \in 1..Len(last.buffers) :
            ContentLen(last.buffers[g]) <= MaxChunkSize

\* C19: a non-empty document shorter than min_chunk_size is chunked into
\* exactly one chunk whose content is the document, whatever its type
C19_ShortDocumentIsOneVerbatimChunk ==
    (/\ last.op = "chunk_document"
     /\ Len(last.content) = 1
     /\ ContentLen(last.content) < MinChunkSize) =>
        /\ Len(last.chunks) = 1
        /\ last.chunks[1].content = last.content

\* the group a returned chunk came from: the one that holds its first segment
GroupOfChunk(c) ==
    CHOOSE g \in 1..Len(last.buffers) : c.content[1] \in Range(last.buffers[g])

\* C20: when the enrichment of a group fails, chunk_document does not raise;
\* the group comes back as one chunk with its own content, semantic_chunk
\* False and char_count the length of that content, and every other group
\* is still returned, the chunks in the order of their groups
C20_FailedGroupFallsBack ==
    last.op = "chunk_document" =>
        /\ ~last.raised
        /\ \A g \in 1..Len(last.buffers) :
              LET mine == SelectSeq(last.chunks, LAMBDA c : GroupOfChunk(c) = g)
              IN IF LlmFailed(last.outs[g])
                 THEN /\ Len(mine) = 1
                      /\ mine[1].content = last.buffers[g]
                      /\ mine[1].semantic_chunk = FALSE
                      /\ mine[1].char_count = ContentLen(last.buffers[g])
                 ELSE /\ Len(mine) >= 1
                      /\ \A k \in 1..Len(mine) : mine[k].semantic_chunk
        /\ \A j, k \in 1..Len(last.chunks) :
              j < k => GroupOfChunk(last.chunks[j]) <= GroupOfChunk(last.chunks[k])

\* a document of two groups: the first one's reply is not JSON, the second
\* one is enriched, and both are in the result
C20_Witness ==
    /\ last.op = "chunk_document"
    /\ Len(last.buffers) = 2
    /\ last.outs = <<"unparsable", "ok">>
    /\ Len(last.chunks) = 2
    /\ ~last.chunks[1].semantic_chunk
    /\ last.chunks[2].semantic_chunk


\* the similarities of the similar chunks of one candidate, in result order
ChunkSimsOf(similar, d) ==
    LET mine == SelectSeq(similar, LAMBDA e : e.doc_id = d)
    IN [i \in 1..Len(mine) |-> mine[i].similarity]

C22_BatchesCoverTextsOnce ==
    last.op = "embed_chunks" =>
        LET n == Len(last.chunks)
            b == last.batch_size
        IN /\ IF last.model_type = "ollama"
              THEN last.calls = <<last.chunks>>
              ELSE /\ Len(last.calls) = (n + b - 1) \div b
                   /\ \A c \in 1..Len(last.calls) :
                         /\ Len(last.calls[c]) <= b
                         /\ \A k \in 1..Len(last.calls[c]) :
                               last.calls[c][k] = last.chunks[(c - 1) * b + k]
                   /\ SumSeq([c \in 1..Len(last.calls) |-> Len(last.calls[c])]) = n
           /\ Len(last.out) = n
           /\ \A i \in 1..n : last.out[i] = EmbedText(last.chunks[i])

\* four texts in batches of three: two calls, the second
\* with the one remaining text
C22_Witness ==
    /\ last.op = "embed_chunks"
    /\ last.model_type = "openai"
    /\ last.batch_size = 3
    /\ Len(last.chunks) = 4
    /\ Len(last.calls) = 2
    /\ Len(last.calls[2]) = 1
    /\ last.chunks[1] # last.chunks[4]


\* the writes of a call that returns add up to what the call does as a whole
StepsAgreeWithOp ==
    (last.op \in {"add_document", "update_document"} /\ "writes" \in DOMAIN last
       /\ ~last.raised) =>
        Store = IF last.op = "add_document"
                THEN AddDocumentOp(last.before, seed, last.doc_id, last.chunks,
                                   last.embs, last.metadata)
                ELSE UpdateDocumentOp(last.before, seed, last.doc_id, last.chunks,
                                      last.embs, last.metadata, now)

\* the place of a kind of write in the order the claim gives
WriteRank(kind) ==
    IF kind = "delete_notes" THEN 1
    ELSE IF kind = "delete_links" THEN 2
    ELSE IF kind = "upsert_notes" THEN 3
    ELSE IF kind = "upsert_metadata" THEN 5
    ELSE 4

\* the records the first k writes of the last call have written, by kind
WrittenBy(kinds, k) ==
    UNION {Range(last.writes[i].recs) :
             i \in {j \in 1..k : last.writes[j].kind \in kinds}}

\* C23: an update_document call deletes D's chunks, deletes D's outgoing
\* edges, inserts the new chunks, inserts the new edges and writes the
\* modification time, in that order, and after none of its writes do
\* records of D's previous version (records the call does not write again)
\* stand in notes, or in the edge collections, next to records the call
\* has written
C23_NoStaleNextToFresh ==
    (last.op = "update_document" /\ "writes" \in DOMAIN last /\ last.fault_at = 0) =>
        /\ \A i, j \in 1..Len(last.writes) :
              i < j => WriteRank(last.writes[i].kind) <= WriteRank(last.writes[j].kind)
        /\ \A k \in 1..Len(last.states) :
              LET st == last.states[k]
                  newNotes == WrittenBy({"upsert_notes"}, k)
                  newEdges == WrittenBy({"upsert_links", "upsert_references"}, k)
                  oldNotes == {r \in st.notes \cap last.before.notes :
                                 r.doc_id = last.doc_id}
                              \ WrittenBy({"upsert_notes"}, Len(last.writes))
                  oldEdges == {r \in (st.links \cap last.before.links)
                                      \cup (st.refs \cap last.before.refs) :
                                 r.source_id = last.doc_id}
                              \ WrittenBy({"upsert_links", "upsert_references"},
                                          Len(last.writes))
              IN /\ ~(oldNotes # {} /\ newNotes # {})
                 /\ ~(oldEdges # {} /\ newEdges # {})


\* C24: every write add_document and update_document issue goes through the
\* retry policy: a call one of whose writes meets a single transient lock
\* error, everything else succeeding, does not raise
C24_SingleTransientIsRetried ==
    (/\ last.op \in {"add_document", "update_document"}
     /\ "writes" \in DOMAIN last
     /\ last.fault_at > 0
     /\ last.outs = <<"transient", "ok", "ok">>) =>
        /\ last.writes[last.fault_at].retried
        /\ ~last.raised

\* what a store holds of one document
HeldOf(st, d) ==
    [notes |-> {r \in st.notes : r.doc_id = d},
     links |-> {r \in st.links : r.source_id = d},
     refs |-> {r \in st.refs : r.source_id = d},
     meta |-> {r \in st.meta : r.id = d}]

\* C26: an update_document call that raises leaves the chunk records, the
\* edge records and the modification-time entry of the document as they
\* were before the call
C26_FailedUpdateLeavesDocument ==
    (last.op = "update_document" /\ "writes" \in DOMAIN last /\ last.raised) =>
        HeldOf(Store, last.doc_id) = HeldOf(last.before, last.doc_id)


\* C25: update_document called without metadata keeps the document's
\* metadata: the chunk records it inserts have the doc_type, source_path,
\* date and filename the document's chunk records had before
C25_UpdateWithoutMetadataKeepsIt ==
    (/\ last.op = "update_document"
     /\ "writes" \in DOMAIN last
     /\ ~last.raised
     /\ IsNone(last.metadata)) =>
        \A r \in HeldOf(Store, last.doc_id).notes :
            \A q \in HeldOf(last.before, last.doc_id).notes :
                /\ r.doc_type = q.doc_type
                /\ r.source_path = q.source_path
                /\ r.date = q.date
                /\ r.filename = q.filename


\* whether the store holds the chunks of this content for the note
IndexedAs(path, content) ==
    LET chunks == ChunkDocument(content)
    IN \A i \in 1..Len(chunks) :
          \E r \in notes : r.id = ChunkId(path, i - 1) /\ r.document = chunks[i]

\* C27: no modification is missed by incremental indexing: when a run of
\* kb --update has stored its last_update time, every note file either is
\* indexed with its present content or has a modified_time greater than
\* the stored time, so that the next run selects it
C27_NoModificationMissed ==
    (last.op = "kb_update" /\ last.pc = "done" /\ last.recorded) =>
        \A p \in Paths :
            files[p].exists =>
                \/ IndexedAs(p, files[p].content)
                \/ files[p].mtime > GetLastUpdateTime


\* C28: wiki edges of different (source_id, target) pairs are distinct
\* records of links: a call of add_document or update_document for one
\* document leaves every edge of every other source in place
C28_EdgesOfOtherSourcesStay ==
    (last.op \in {"add_document", "update_document"} /\ "writes" \in DOMAIN last) =>
        \A r \in last.before.links :
            r.source_id # last.doc_id =>
                \E q \in links : q.source_id = r.source_id /\ q.target_id = r.target_id


\* C29: within one update_obsidian_links call each target is added at most
\* once, also when the list names it in several add_wiki_link directives:
\* the written file holds exactly one link line for it and its backlink
\* update is triggered at most once
C29_EachTargetAddedOnce ==
    (LinksUpdated /\ last.wrote) =>
        \A i \in 1..Len(last.added) :
            /\ TimesAdded(last.added[i]) = 1
            /\ Occurrences(files[FileKey(last.path)].content, last.added[i]) = 1

\* the text a call keeps: the main body and, when there is one, the links
\* section behind its rule, each without its trailing whitespace
KeptText(original) ==
    LET parts == SplitAtRule(original)
    IN IF parts.links # <<>>
       THEN RStrip(parts.main) \o Rule \o RStrip(parts.links)
       ELSE RStrip(parts.main)

HeadingsIn(text) ==
    Cardinality({i \in 1..Len(text) : text[i] = AutoHeading})

====
